---- MODULE Spec2Model ----
(***************************************************************************)
(* Model of the Slack translation bot: the three Slack event listeners of  *)
(* middleware/slack_event_handler.py, the SQLite message_map store of      *)
(* db/sqlite.py, the two LLM providers of llm/ollama.py and llm/openai.py  *)
(* and the language helpers of core/util.py.                               *)
(*                                                                         *)
(* Python str values that the code concatenates, strips or compares are    *)
(* sequences of tokens (a token is a TLA+ string; " " is whitespace).      *)
(* Channel ids and message timestamps are opaque TLA+ strings.             *)
(* An Optional value is a sequence of length 0 (None) or 1.                *)
(***************************************************************************)
EXTENDS Integers, Sequences, FiniteSets, Bags, TLC

\* ------------------------------------------------------------------ bounds
\* events delivered in one run, and listener invocations that may overlap
MaxEvents == 2
NumHandlers == 2

\* longest str, in tokens, passed to the language helpers directly
MaxLen == 3

Channels == {"C1"}
Timestamps == {"100.1", "200.1"}
Keys == Channels \X Timestamps

Providers == {"ollama", "openai"}

\* ------------------------------------------------------- program constants
SP == " "
Tombstone == <<"This message was deleted.">>
Placeholder == <<":hourglass_flowing_sand: Translating...">>
DIVIDER_BLOCK == [type |-> "divider", fields |-> <<>>]
SECTION_BLOCK_TYPE == "section"

\* message texts the event source delivers
Texts == {<<"Hello">>, <<SP, "Hello">>, Tombstone}

\* raw replies of the language-detection backend
RawDetect == {<<"ko">>, <<"en", SP>>, <<"zz">>}

\* the texts and detection replies of the runs with overlapping listeners
ConcTexts == {<<"Hello">>, Tombstone}
ConcRawDetect == {<<"en", SP>>}

\* ----------------------------------------------------------- str helpers
RECURSIVE lstrip(_)
lstrip(s) == IF s # <<>> /\ Head(s) = SP THEN lstrip(Tail(s)) ELSE s

RECURSIVE rstrip(_)
rstrip(s) ==
    IF s # <<>> /\ s[Len(s)] = SP THEN rstrip(SubSeq(s, 1, Len(s) - 1)) ELSE s

\* str.strip()
strip(s) == rstrip(lstrip(s))

\* ------------------------------------------------------------ core/util.py
\* (mutant) the th branch returns the source language itself
find_target_languages_th_first(source_lang) ==
    IF source_lang = <<"ko">> THEN << <<"th">>, <<"en">> >>
    ELSE IF source_lang = <<"en">> THEN << <<"ko">>, <<"th">> >>
    ELSE IF source_lang = <<"th">> THEN << <<"th">>, <<"en">> >>
    ELSE << <<"en">>, <<"ko">> >>

find_target_languages(source_lang) ==
    IF source_lang = <<"ko">> THEN << <<"th">>, <<"en">> >>
    ELSE IF source_lang = <<"en">> THEN << <<"ko">>, <<"th">> >>
    ELSE IF source_lang = <<"th">> THEN << <<"ko">>, <<"en">> >>
    ELSE << <<"en">>, <<"ko">> >>

\* (mutant) the fallback is the us flag
find_national_flag_default_us(lang_code) ==
    IF lang_code = <<"ko">> THEN <<":flag-kr:">>
    ELSE IF lang_code = <<"th">> THEN <<":flag-th:">>
    ELSE <<":flag-us:">>

find_national_flag(lang_code) ==
    IF lang_code = <<"ko">> THEN <<":flag-kr:">>
    ELSE IF lang_code = <<"en">> THEN <<":flag-us:">>
    ELSE IF lang_code = <<"th">> THEN <<":flag-th:">>
    ELSE <<":globe_with_meridians:">>

\* ----------------------------------------------------------- LLM providers
\* the backend's reply to a translation prompt, before the provider trims it
\* (the model's backend always ends its reply with whitespace)
BackendReply(target_lang, text) ==
    <<"tr">> \o target_lang \o text \o <<SP>>

\* sync_translate: the flag-prefixed, trimmed backend reply
sync_translate(target_lang, raw) ==
    find_national_flag(target_lang) \o <<SP>> \o strip(raw)

\* original_text of the TranslationResponse, per provider
ollama_original_text(request) ==
    find_national_flag(request.source_lang) \o <<SP>> \o request.text

openai_original_text(request) ==
    find_national_flag(request.source_lang) \o <<SP>> \o strip(request.text)

original_text(prov, request) ==
    IF prov = "ollama" THEN ollama_original_text(request)
    ELSE openai_original_text(request)

\* --------------------------------------------------------- slack formatting
section_block(text) ==
    [type |-> SECTION_BLOCK_TYPE, fields |-> <<[type |-> "mrkdwn", text |-> text]>>]

\* (mutant) only the original text is shown
format_translation_original_only(response) ==
    <<section_block(response.original_text)>>

\* (mutant) the translated blocks come in reverse order
format_translation_reversed(response) ==
    <<section_block(response.original_text), DIVIDER_BLOCK>>
        \o [i \in 1..Len(response.translated_text) |->
                section_block(response.translated_text[
                    Len(response.translated_text) + 1 - i])]

format_translation_as_slack_message(response) ==
    <<section_block(response.original_text), DIVIDER_BLOCK>>
        \o [i \in 1..Len(response.translated_text) |->
                section_block(response.translated_text[i])]

\* (mutant) no message counts as a bot message
is_bot_message_never(message) == FALSE

\* (mutant) the bot_id marker is not looked at
is_bot_message_subtype_only(message) ==
    message.subtype = "bot_message"

is_bot_message(message) ==
    message.subtype = "bot_message" \/ message.bot_id # "None"

\* --------------------------------------------------------- db/sqlite.py
\* the rows of table message_map matching a source key
RowsOf(table, src_channel, src_ts) ==
    {r \in table : r.src_channel = src_channel /\ r.src_ts = src_ts}

\* (mutant) table created without the primary key
insert_conflict_never(table, src_channel, src_ts) == FALSE

\* primary key (src_channel, src_ts): an insert of a present key is refused
insert_conflict(table, src_channel, src_ts) ==
    RowsOf(table, src_channel, src_ts) # {}

\* (mutant) the row stores the source key in the destination columns
insert_message_map_src_as_dst(table, src_channel, src_ts, dst_channel, dst_ts) ==
    table \cup {[src_channel |-> src_channel, src_ts |-> src_ts,
                 dst_channel |-> src_channel, dst_ts |-> src_ts]}

insert_message_map(table, src_channel, src_ts, dst_channel, dst_ts) ==
    table \cup {[src_channel |-> src_channel, src_ts |-> src_ts,
                 dst_channel |-> dst_channel, dst_ts |-> dst_ts]}

\* (mutant) where clause without src_ts
select_message_map_by_channel(table, src_channel, src_ts) ==
    IF {r \in table : r.src_channel = src_channel} = {} THEN {<<>>}
    ELSE {<<[channel |-> r.dst_channel, ts |-> r.dst_ts]>> :
              r \in {q \in table : q.src_channel = src_channel}}

\* (mutant) the lookup never finds a row
select_message_map_none(table, src_channel, src_ts) == {<<>>}

\* cursor.fetchone(): the results are the 0- or 1-element sequences of rows
select_message_map(table, src_channel, src_ts) ==
    IF RowsOf(table, src_channel, src_ts) = {} THEN {<<>>}
    ELSE {<<[channel |-> r.dst_channel, ts |-> r.dst_ts]>> :
              r \in RowsOf(table, src_channel, src_ts)}

\* (mutant) no where clause
delete_message_map_all(table, src_channel, src_ts) == {}

\* (mutant) where clause without src_ts
delete_message_map_by_channel(table, src_channel, src_ts) ==
    table \ {r \in table : r.src_channel = src_channel}

\* (mutant) where clause compares dst_ts with the source timestamp
delete_message_map_by_dst_ts(table, src_channel, src_ts) ==
    table \ {r \in table : r.src_channel = src_channel /\ r.dst_ts = src_ts}

delete_message_map(table, src_channel, src_ts) ==
    table \ RowsOf(table, src_channel, src_ts)

\* ------------------------------------------------------------------ state
VARIABLES
    provider,     \* config.LLM_PROVIDER: the provider factory.large_language_model() returns
    author,       \* who wrote each source message of the workspace: "user" or "bot"
    message_map,  \* the rows of table message_map
    posts,        \* the messages the bot has posted to Slack, in posting order
    delivered,    \* number of events the event source has delivered
    hs            \* the bag of listener invocations in progress, each with its
                  \* position, locals, calls made and exception

vars == <<provider, author, message_map, posts, delivered, hs>>

\* ---------------------------------------------------------- Slack events
NoMsg == [ts |-> "None", text |-> <<>>, subtype |-> "None", bot_id |-> "None"]

NoEvent ==
    [channel |-> "None", subtype |-> "None", ts |-> "None", text |-> <<>>,
     bot_id |-> "None", message |-> NoMsg, previous_message |-> NoMsg]

UserMarks == {[subtype |-> "None", bot_id |-> "None"]}
BotMarks == {[subtype |-> "bot_message", bot_id |-> "None"],
             [subtype |-> "None", bot_id |-> "B01"]}

Marks(a) == IF a = "bot" THEN BotMarks ELSE UserMarks

\* a message posted: {type: message, subtype: None | bot_message, channel, ts, text, bot_id}
CreatedEvents(k, a, texts) ==
    {[NoEvent EXCEPT !.channel = k[1], !.ts = k[2], !.text = t,
                     !.subtype = m.subtype, !.bot_id = m.bot_id] :
         t \in texts, m \in Marks(a)}

\* a message edited: {subtype: message_changed, channel, message, previous_message};
\* previous_message is the earlier snapshot of the same message; the tombstone
\* that replaces a deleted thread parent is written by Slack itself
EditedEvents(k, a, texts) ==
    {[NoEvent EXCEPT !.channel = k[1], !.subtype = "message_changed",
                     !.message = [ts |-> k[2], text |-> t, subtype |-> m.subtype,
                                  bot_id |-> m.bot_id],
                     !.previous_message = [ts |-> k[2], text |-> <<"Hello">>,
                                           subtype |-> p.subtype, bot_id |-> p.bot_id]] :
         <<t, m>> \in {x \in texts \X (Marks(a) \cup UserMarks) :
                           x[2] \in Marks(a) \/ x[1] = Tombstone},
         p \in Marks(a)}

\* a message deleted: {subtype: message_deleted, channel, previous_message}
DeletedEvents(k, a) ==
    {[NoEvent EXCEPT !.channel = k[1], !.subtype = "message_deleted",
                     !.previous_message = [ts |-> k[2], text |-> <<"Hello">>,
                                           subtype |-> p.subtype, bot_id |-> p.bot_id]] :
         p \in Marks(a)}

EventsOf(k, a, texts) ==
    CreatedEvents(k, a, texts) \cup EditedEvents(k, a, texts) \cup DeletedEvents(k, a)

\* ------------------------------------------------------ listener invocations
Idle ==
    [pc |-> "idle", fn |-> "None", say |-> "None", event |-> NoEvent,
     channel |-> "None", ts |-> "None", text |-> <<>>,
     response |-> <<>>, source_lang |-> <<>>, target_langs |-> <<>>,
     translations |-> <<>>, parts |-> <<>>, order |-> <<>>, blocks |-> <<>>,
     outputs |-> <<>>, calls |-> <<>>, error |-> "None"]

Call(op, channel, ts) == [op |-> op, channel |-> channel, ts |-> ts]

Called(r, op, channel, ts) == [r EXCEPT !.calls = Append(@, Call(op, channel, ts))]

Return(r) == [r EXCEPT !.pc = "done"]

\* (mutant) the exception is caught and the statement runs again
Raise_and_retry(r, exc) == [r EXCEPT !.error = exc]

Raise(r, exc) == [r EXCEPT !.pc = "done", !.error = exc]

Pending == [state |-> "pending", text |-> <<>>]

\* LARGE_LANGUAGE_MODEL.translate(request) is entered: one task per target language
CallTranslate(r) ==
    [Called(r, "translate", "", "") EXCEPT
        !.pc = "translate",
        !.parts = [i \in 1..Len(r.target_langs) |-> Pending]]

\* the listener invocations in progress
Running == BagToSet(hs)

\* the invocation r has moved on to r2
Put(r, r2) == (hs (-) SetToBag({r})) (+) SetToBag({r2})

TypeOK ==
    /\ provider \in Providers
    /\ author \in [Keys -> {"user", "bot"}]
    /\ delivered \in 0..MaxEvents
    /\ BagCardinality(hs) \in 0..NumHandlers

\* a destination message as an earlier run of the bot left it: translated
OldPost(channel, thread_ts, ts) ==
    [channel |-> channel, ts |-> ts, thread_ts |-> thread_ts,
     text |-> <<"Translated message...">>,
     blocks |-> format_translation_as_slack_message(
                    [original_text |-> <<":flag-us:", SP, "Old">>,
                     translated_text |-> << <<":flag-kr:", SP, "tr", "ko", "Old">>,
                                            <<":flag-th:", SP, "tr", "th", "Old">> >>]),
     deleted |-> FALSE]

\* translation.db outlives the process: at start the table holds the references
\* of the user messages an earlier run translated, oldest first
KeyOrder == <<"100.1", "200.1">>

OldKeys(stored) == SelectSeq(KeyOrder, LAMBDA t : <<"C1", t>> \in stored)

Init ==
    /\ provider \in Providers
    /\ author \in [Keys -> {"user", "bot"}]
    /\ delivered = 0
    /\ hs = EmptyBag
    /\ \E stored \in SUBSET {k \in Keys : author[k] = "user"} :
         /\ posts = [n \in 1..Len(OldKeys(stored)) |->
                        OldPost("C1", OldKeys(stored)[n], ToString(n))]
         /\ message_map = {[src_channel |-> "C1", src_ts |-> OldKeys(stored)[n],
                            dst_channel |-> "C1", dst_ts |-> ToString(n)] :
                              n \in 1..Len(OldKeys(stored))}

\* --------------------------------------- middleware/slack_event_handler.py
\* the parameters of handle_message and the arguments of the call that
\* handle_message_changed makes when no reference exists
handle_message_params == <<"event", "say", "client">>
fallback_args == <<"new_event", "lambda">>

\* the keyword arguments of the say(...) call and the parameters of the
\* lambda that the fallback passes as say
say_keywords == {"channel", "thread_ts", "text"}
lambda_params == {"_text", "thread_ts"}

\* handle_message up to its first external call
handle_message(r, event, say) ==
    LET r1 == [r EXCEPT !.fn = "handle_message"] IN
    IF is_bot_message(event) THEN Return(r1)
    ELSE [r1 EXCEPT !.pc = "say", !.say = say, !.channel = event.channel,
                    !.ts = event.ts, !.text = event.text]

\* handle_message_deleted up to its first external call
handle_message_deleted(r, event) ==
    LET r1 == [r EXCEPT !.fn = "handle_message_deleted"] IN
    IF is_bot_message(event.previous_message) THEN Return(r1)
    ELSE [r1 EXCEPT !.pc = "select", !.channel = event.channel,
                    !.ts = event.previous_message.ts]

\* (mutant) the tombstone special case is missing
is_tombstone_never(text) == FALSE

is_tombstone(text) == text = Tombstone

\* handle_message_changed up to its first external call
handle_message_changed(r, event) ==
    LET message == event.message
        r1 == [r EXCEPT !.fn = "handle_message_changed"]
        r2 == [r1 EXCEPT !.channel = event.channel, !.ts = message.ts,
                         !.text = message.text]
    IN  IF is_bot_message(message) THEN Return(r1)
        ELSE IF is_tombstone(r2.text) THEN handle_message_deleted(r2, event)
        ELSE [r2 EXCEPT !.pc = "detect"]

\* the else branch of handle_message_changed: handle_message(new_event, lambda)
fallback_to_handle_message(r) ==
    LET new_event == [r.event EXCEPT !.channel = r.channel, !.ts = r.ts,
                                     !.text = r.text]
    IN  IF Len(fallback_args) # Len(handle_message_params)
        THEN Raise(r, "TypeError")
        ELSE handle_message(r, new_event, "lambda")

\* slack_bolt routes an event to the listener registered for its subtype
Dispatch(r, event) ==
    CASE event.subtype = "None" -> handle_message(r, event, "say")
      [] event.subtype = "message_changed" -> handle_message_changed(r, event)
      [] event.subtype = "message_deleted" -> handle_message_deleted(r, event)
      [] OTHER -> Return(r)

\* the event source delivers an event: a worker thread starts its listener
Deliver(e) ==
    /\ delivered < MaxEvents
    /\ BagCardinality(hs) < NumHandlers
    /\ delivered' = delivered + 1
    /\ hs' = hs (+) SetToBag({Dispatch([Idle EXCEPT !.event = e], e)})
    /\ UNCHANGED <<provider, author, message_map, posts>>

\* say(channel=channel, thread_ts=ts, text=...): raises, returns None or
\* returns the posted placeholder
Say(r) ==
    LET c == Called(r, "say", r.channel, r.ts)
        new_ts == ToString(Len(posts) + 1)
    IN
    /\ r.pc = "say"
    /\ \/ /\ r.say = "lambda" /\ ~(say_keywords \subseteq lambda_params)
          /\ hs' = Put(r, Raise(r, "TypeError"))
          /\ UNCHANGED posts
       \/ /\ r.say = "say"
          /\ hs' = Put(r, Raise(c, "SlackApiError"))
          /\ UNCHANGED posts
       \/ /\ r.say = "say"
          /\ hs' = Put(r, [c EXCEPT !.pc = "detect", !.response = <<>>])
          /\ UNCHANGED posts
       \/ /\ r.say = "say"
          /\ posts' = Append(posts, [channel |-> r.channel, ts |-> new_ts,
                                     thread_ts |-> r.ts, text |-> Placeholder,
                                     blocks |-> <<>>, deleted |-> FALSE])
          /\ hs' = Put(r, [c EXCEPT !.pc = "insert",
                                !.response = <<[channel |-> r.channel, ts |-> new_ts]>>])
    /\ UNCHANGED <<provider, author, message_map, delivered>>

\* __DATABASE.insert_message_map(channel, ts, response["channel"], response["ts"])
Insert(r) ==
    LET c == Called(r, "insert_message_map", r.channel, r.ts)
    IN
    /\ r.pc = "insert"
    /\ IF insert_conflict(message_map, r.channel, r.ts)
       THEN /\ hs' = Put(r, Raise(c, "IntegrityError"))
            /\ UNCHANGED message_map
       ELSE /\ message_map' = insert_message_map(message_map, r.channel, r.ts,
                                                 r.response[1].channel, r.response[1].ts)
            /\ hs' = Put(r, [c EXCEPT !.pc = "detect"])
    /\ UNCHANGED <<provider, author, posts, delivered>>

\* __LARGE_LANGUAGE_MODEL.detect_language(text), then find_target_languages
Detect(r, raws) ==
    LET c == Called(r, "detect_language", "", "")
    IN
    /\ r.pc = "detect"
    /\ \/ hs' = Put(r, Raise(c, "Exception"))
       \/ \E raw \in raws :
            LET d == [c EXCEPT !.source_lang = strip(raw),
                               !.target_langs = find_target_languages(strip(raw))]
            IN  hs' = Put(r, IF r.fn = "handle_message" THEN CallTranslate(d)
                         ELSE [d EXCEPT !.pc = "select"])
    /\ UNCHANGED <<provider, author, message_map, posts, delivered>>

\* __DATABASE.select_message_map(channel, ts) and the branch on its result
Select(r) ==
    LET c == Called(r, "select_message_map", r.channel, r.ts)
    IN
    /\ r.pc = "select"
    /\ \E row \in select_message_map(message_map, r.channel, r.ts) :
         LET d == [c EXCEPT !.translations = row] IN
         hs' = Put(r, IF r.fn = "handle_message_changed"
                  THEN IF row # <<>> THEN CallTranslate(d)
                       ELSE fallback_to_handle_message(d)
                  ELSE IF row # <<>> THEN [d EXCEPT !.pc = "chat_delete"]
                       ELSE Return(d))
    /\ UNCHANGED <<provider, author, message_map, posts, delivered>>

\* the result of one per-language task: sync_translate's value, or its failure
Part(ok, target_lang, text) ==
    IF ok THEN [state |-> "ok", text |-> sync_translate(target_lang,
                                               BackendReply(target_lang, text))]
    ELSE [state |-> "failed", text |-> <<>>]

\* the TranslationResponse that translate() builds from the gathered results
translate(prov, request, results) ==
    [original_text |-> original_text(prov, request), translated_text |-> results]

\* (mutant) the results are collected as the tasks complete
gather_as_completed(parts, order) == [n \in DOMAIN order |-> parts[order[n]].text]

\* asyncio.gather(*tasks): the results in the order of the tasks, whatever the
\* order in which they completed
gather(parts, order) == [i \in DOMAIN parts |-> parts[i].text]

\* (mutant) the response holds the texts of the tasks that succeeded
translate_return_partial(prov, r) ==
    LET done == SelectSeq([i \in DOMAIN r.parts |-> r.parts[i]],
                          LAMBDA part : part.state = "ok")
    IN  [r EXCEPT !.pc = "update",
                  !.blocks = format_translation_as_slack_message(
                                 translate(prov, [text |-> r.text,
                                                  source_lang |-> r.source_lang,
                                                  target_lang |-> r.target_langs],
                                           [i \in DOMAIN done |-> done[i].text]))]

\* (mutant) a failed task is not reported: its text is left empty
translate_return_ignoring_failures(prov, r) ==
    [r EXCEPT !.pc = "update",
              !.blocks = format_translation_as_slack_message(
                             translate(prov, [text |-> r.text,
                                              source_lang |-> r.source_lang,
                                              target_lang |-> r.target_langs],
                                       gather(r.parts, r.order)))]

\* asyncio.run(translate_all_async()) returns once every task has ended:
\* translate() raises if a task raised, else the handler formats the response
translate_return(prov, r) ==
    LET request == [text |-> r.text, source_lang |-> r.source_lang,
                    target_lang |-> r.target_langs]
        results == gather(r.parts, r.order)
    IN  IF \E i \in DOMAIN r.parts : r.parts[i].state = "failed"
        THEN Raise(r, "Exception")
        ELSE [r EXCEPT !.pc = "update",
                       !.blocks = format_translation_as_slack_message(
                                      translate(prov, request, results))]

\* __LARGE_LANGUAGE_MODEL.translate(request) as one step of the listener: the
\* backend queries touch no state of the bot, so every task runs to its end
Translate(r) ==
    /\ r.pc = "translate"
    /\ \E ok \in [DOMAIN r.parts -> BOOLEAN] :
         hs' = Put(r, translate_return(provider,
                      [r EXCEPT !.parts = [i \in DOMAIN r.parts |->
                                              Part(ok[i], r.target_langs[i], r.text)]]))
    /\ UNCHANGED <<provider, author, message_map, posts, delivered>>

\* inside translate(): one of the per-language tasks queries the backend
QueryBackend(r, i) ==
    /\ r.pc = "translate"
    /\ i \in DOMAIN r.parts
    /\ r.parts[i].state = "pending"
    /\ \E ok \in BOOLEAN :
         hs' = Put(r, [r EXCEPT !.parts[i] = Part(ok, r.target_langs[i], r.text),
                               !.order = Append(@, i)])
    /\ UNCHANGED <<provider, author, message_map, posts, delivered>>

\* inside translate(): asyncio.run returns after the last task has ended
TranslateReturn(r) ==
    /\ r.pc = "translate"
    /\ \A i \in DOMAIN r.parts : r.parts[i].state # "pending"
    /\ hs' = Put(r, translate_return(provider, r))
    /\ UNCHANGED <<provider, author, message_map, posts, delivered>>

\* the live message of the bot with this channel and ts, if any
LivePosts(channel, ts) ==
    {n \in DOMAIN posts : /\ posts[n].channel = channel /\ posts[n].ts = ts
                          /\ ~posts[n].deleted}

\* (mutant) the edit flow updates through response, as the create flow does
update_target_response(r) == r.response

\* the destination of the chat_update call: response in handle_message,
\* the selected row in handle_message_changed
update_target(r) == IF r.fn = "handle_message" THEN r.response ELSE r.translations

update_text(r) ==
    IF r.fn = "handle_message" THEN <<"Translated message...">>
    ELSE <<"This is the translated message...">>

\* client.chat_update(channel, ts, text, blocks)
Update(r) ==
    LET target == update_target(r)
    IN
    /\ r.pc = "update"
    /\ IF target = <<>>
       THEN /\ hs' = Put(r, Raise(r, "TypeError"))
            /\ UNCHANGED posts
       ELSE LET c == Called(r, "chat_update", target[1].channel, target[1].ts) IN
            \/ /\ hs' = Put(r, Raise(c, "SlackApiError"))
               /\ UNCHANGED posts
            \/ \E n \in LivePosts(target[1].channel, target[1].ts) :
                 /\ posts' = [posts EXCEPT ![n].text = update_text(r),
                                           ![n].blocks = r.blocks]
                 /\ hs' = Put(r, Return(c))
    /\ UNCHANGED <<provider, author, message_map, delivered>>

\* client.chat_delete(channel=dst_channel, ts=dst_ts)
ChatDelete(r) ==
    LET target == r.translations[1]
        c == Called(r, "chat_delete", target.channel, target.ts)
    IN
    /\ r.pc = "chat_delete"
    /\ \/ /\ hs' = Put(r, Raise(c, "SlackApiError"))
          /\ UNCHANGED posts
       \/ \E n \in LivePosts(target.channel, target.ts) :
            /\ posts' = [posts EXCEPT ![n].deleted = TRUE]
            /\ hs' = Put(r, [c EXCEPT !.pc = "db_delete"])
    /\ UNCHANGED <<provider, author, message_map, delivered>>

\* __DATABASE.delete_message_map(channel, ts)
DbDelete(r) ==
    LET c == Called(r, "delete_message_map", r.channel, r.ts)
    IN
    /\ r.pc = "db_delete"
    /\ message_map' = delete_message_map(message_map, r.channel, r.ts)
    /\ hs' = Put(r, Return(c))
    /\ UNCHANGED <<provider, author, posts, delivered>>

\* the listener has returned or raised; its invocation ends
Finish(r) ==
    /\ r.pc = "done"
    /\ hs' = hs (-) SetToBag({r})
    /\ UNCHANGED <<provider, author, message_map, posts, delivered>>

\* one event at a time
DeliverAlone ==
    /\ Running = {}
    /\ \E k \in Keys : \E e \in EventsOf(k, author[k], Texts) : Deliver(e)

\* events are handled concurrently by the listener's worker threads
DeliverAny ==
    \E k \in Keys : \E e \in EventsOf(k, author[k], ConcTexts) : Deliver(e)

Steps(raws) ==
    \/ \E r \in Running : Say(r)
    \/ \E r \in Running : Insert(r)
    \/ \E r \in Running : Detect(r, raws)
    \/ \E r \in Running : Select(r)
    \/ \E r \in Running : Translate(r)
    \/ \E r \in Running : Update(r)
    \/ \E r \in Running : ChatDelete(r)
    \/ \E r \in Running : DbDelete(r)
    \/ \E r \in Running : Finish(r)

Next == DeliverAlone \/ Steps(RawDetect)

Spec == Init /\ [][Next]_vars

NextConc == DeliverAny \/ Steps(ConcRawDetect)

\* the first run of the bot: translation.db is created empty
InitFresh ==
    /\ Init
    /\ message_map = {}

SpecFresh == InitFresh /\ [][Next]_vars

\* translate() with its per-language tasks as steps of their own
StepsFanOut(raws) ==
    \/ \E r \in Running : Say(r)
    \/ \E r \in Running : Insert(r)
    \/ \E r \in Running : Detect(r, raws)
    \/ \E r \in Running : Select(r)
    \/ \E r \in Running : \E i \in DOMAIN r.parts : QueryBackend(r, i)
    \/ \E r \in Running : TranslateReturn(r)
    \/ \E r \in Running : Update(r)
    \/ \E r \in Running : ChatDelete(r)
    \/ \E r \in Running : DbDelete(r)
    \/ \E r \in Running : Finish(r)

NextTranslate == DeliverAlone \/ StepsFanOut(RawDetect)

SpecTranslate == Init /\ [][NextTranslate]_vars

\* the runs with overlapping listeners start from the same states, with one
\* provider and user messages only (unpadded texts read the same under both
\* providers, and events of bot messages end before their first call)
InitConc ==
    /\ Init
    /\ provider = "ollama"
    /\ author = [k \in Keys |-> "user"]

SpecConc == InitConc /\ [][NextConc]_vars

\* the source key an event is about
EventKey(e) ==
    CASE e.subtype = "message_changed" -> <<e.channel, e.message.ts>>
      [] e.subtype = "message_deleted" -> <<e.channel, e.previous_message.ts>>
      [] OTHER -> <<e.channel, e.ts>>

\* events of different source messages are handled concurrently, the events
\* of one source message one after the other
DeliverDistinct ==
    \E k \in {x \in Keys : \A r \in Running : EventKey(r.event) # x} :
        \E e \in EventsOf(k, author[k], ConcTexts) : Deliver(e)

NextDistinct == DeliverDistinct \/ Steps(ConcRawDetect)

SpecDistinct == InitConc /\ [][NextDistinct]_vars

\* the message events Slack emits for the bot's own messages: one for the
\* send, one for an update, one for a delete
EchoEventsOf(p) ==
    CreatedEvents(<<p.channel, p.ts>>, "bot", {Placeholder})
    \cup (IF p.blocks # <<>>
          THEN EditedEvents(<<p.channel, p.ts>>, "bot", {p.text}) ELSE {})
    \cup (IF p.deleted THEN DeletedEvents(<<p.channel, p.ts>>, "bot") ELSE {})

\* an event of one of the bot's own messages comes back to the listeners
DeliverEcho ==
    \E n \in DOMAIN posts : \E e \in EchoEventsOf(posts[n]) : Deliver(e)

\* a user event arrives once the earlier events are handled
DeliverUser ==
    /\ Running = {}
    /\ \E k \in Keys : \E e \in EventsOf(k, author[k], ConcTexts) : Deliver(e)

NextEcho == DeliverUser \/ DeliverEcho \/ Steps(ConcRawDetect)

\* every external call returns or raises and every delivered event is
\* dispatched, so a step that can be taken is taken
SpecEcho == InitConc /\ [][NextEcho]_vars /\ WF_vars(NextEcho)

\* the user edits a message again and again: the n-th event delivered carries
\* the n-th version of the text
VersionedText == <<"Hello", ToString(delivered + 1)>>

DeliverEdit ==
    \E k \in Keys : \E e \in EditedEvents(k, author[k], {VersionedText}) : Deliver(e)

\* overlapping handle_message_changed listeners
NextEdits ==
    \/ DeliverEdit
    \/ \E r \in Running : Detect(r, ConcRawDetect)
    \/ \E r \in Running : Select(r)
    \/ \E r \in Running : Translate(r)
    \/ \E r \in Running : Update(r)
    \/ \E r \in Running : Finish(r)

SpecEdits == InitConc /\ [][NextEdits]_vars

\* ------------------------------------------------- the store used directly
\* destinations a caller of the store may pass
StoreDst == {"1", "2", "3"}

InitStore ==
    /\ provider = "ollama"
    /\ author = [k \in Keys |-> "user"]
    /\ message_map = {}
    /\ posts = <<>>
    /\ delivered = 0
    /\ hs = EmptyBag

\* SQLiteDatabase.insert_message_map called with any key and destination
StoreInsert(k, dst_ts) ==
    LET c == [Called(Idle, "insert_message_map", k[1], k[2]) EXCEPT
                 !.response = <<[channel |-> k[1], ts |-> dst_ts]>>]
    IN
    /\ IF insert_conflict(message_map, k[1], k[2])
       THEN /\ hs' = SetToBag({Raise(c, "IntegrityError")})
            /\ UNCHANGED message_map
       ELSE /\ message_map' = insert_message_map(message_map, k[1], k[2], k[1], dst_ts)
            /\ hs' = SetToBag({Return(c)})
    /\ UNCHANGED <<provider, author, posts, delivered>>

\* SQLiteDatabase.select_message_map called with any key
StoreSelect(k) ==
    /\ \E row \in select_message_map(message_map, k[1], k[2]) :
         hs' = SetToBag({Return([Called(Idle, "select_message_map", k[1], k[2]) EXCEPT
                                    !.translations = row])})
    /\ UNCHANGED <<provider, author, message_map, posts, delivered>>

\* SQLiteDatabase.delete_message_map called with any key
StoreDelete(k) ==
    /\ message_map' = delete_message_map(message_map, k[1], k[2])
    /\ hs' = SetToBag({Return(Called(Idle, "delete_message_map", k[1], k[2]))})
    /\ UNCHANGED <<provider, author, posts, delivered>>

NextStore ==
    \/ \E k \in Keys : \E d \in StoreDst : StoreInsert(k, d)
    \/ \E k \in Keys : StoreSelect(k)
    \/ \E k \in Keys : StoreDelete(k)

SpecStore == InitStore /\ [][NextStore]_vars

\* --------------------------------------- the language helpers used directly
\* the tokens of the strs a caller may pass: the known codes, an unknown
\* code, an upper-case spelling and whitespace
LangTokens == {"ko", "en", "th", "zz", "KO", SP}

RECURSIVE StrsUpTo(_)
StrsUpTo(n) ==
    IF n = 0 THEN {<<>>}
    ELSE StrsUpTo(n - 1)
         \cup {Append(s, t) : s \in {x \in StrsUpTo(n - 1) : Len(x) = n - 1},
                              t \in LangTokens}

LangInputs == StrsUpTo(MaxLen)

\* find_target_languages(source_lang) called with any str
CallFindTargetLanguages(s) ==
    /\ hs' = SetToBag({Return([Idle EXCEPT !.fn = "find_target_languages",
                                           !.source_lang = s,
                                           !.target_langs = find_target_languages(s)])})
    /\ UNCHANGED <<provider, author, message_map, posts, delivered>>

\* find_national_flag(lang_code) called with any str
CallFindNationalFlag(s) ==
    /\ hs' = SetToBag({Return([Idle EXCEPT !.fn = "find_national_flag",
                                           !.source_lang = s,
                                           !.text = find_national_flag(s)])})
    /\ UNCHANGED <<provider, author, message_map, posts, delivered>>

NextLang ==
    \/ \E s \in LangInputs : CallFindTargetLanguages(s)
    \/ \E s \in LangInputs : CallFindNationalFlag(s)

SpecLang == InitStore /\ [][NextLang]_vars

\* --------------------------------------- LargeLanguageModel.translate alone
\* the TranslationRequests and the raw backend outputs translate() is called
\* with: any text, any language code, any list of target languages
RequestLangs == {<<"ko">>, <<"en">>, <<"th">>, <<"zz">>}

RequestTargets ==
    {<<>>, << <<"zz">> >>} \cup {find_target_languages(s) : s \in RequestLangs}

BackendOutputs == {<<"tr">>, <<SP, "tr", SP>>}

TranslationRequests ==
    [text : Texts, source_lang : RequestLangs, target_lang : RequestTargets]

\* the provider the factory built, before any call
InitProviders ==
    /\ provider \in Providers
    /\ author = [k \in Keys |-> "user"]
    /\ message_map = {}
    /\ posts = <<>>
    /\ delivered = 0
    /\ hs = EmptyBag

\* LARGE_LANGUAGE_MODEL.translate(request) with the backend answering the
\* query for target_lang[i] with raws[i], or failing it: the call raises, or
\* returns the TranslationResponse (kept in response)
LlmTranslate(request, raws, ok) ==
    LET r == [Idle EXCEPT !.fn = "translate", !.text = request.text,
                          !.source_lang = request.source_lang,
                          !.target_langs = request.target_lang,
                          !.outputs = raws,
                          !.parts = [i \in DOMAIN request.target_lang |->
                                       IF ok[i]
                                       THEN [state |-> "ok",
                                             text |-> sync_translate(
                                                          request.target_lang[i], raws[i])]
                                       ELSE [state |-> "failed", text |-> <<>>]],
                          !.order = [i \in DOMAIN request.target_lang |-> i]]
    IN
    /\ hs' = SetToBag({IF \E i \in DOMAIN r.parts : r.parts[i].state = "failed"
                       THEN Raise(r, "Exception")
                       ELSE Return([r EXCEPT !.response =
                                <<translate(provider, request,
                                            gather(r.parts, r.order))>>])})
    /\ UNCHANGED <<provider, author, message_map, posts, delivered>>

NextProviders ==
    \E request \in TranslationRequests :
        \E raws \in [DOMAIN request.target_lang -> BackendOutputs] :
            \E ok \in [DOMAIN request.target_lang -> BOOLEAN] :
                LlmTranslate(request, raws, ok)

SpecProviders == InitProviders /\ [][NextProviders]_vars


\* ================================================================= claims
Ops(r) == {r.calls[i].op : i \in DOMAIN r.calls}

Calls(r) == {r.calls[i] : i \in DOMAIN r.calls}

IsCreated(e) == e.subtype \in {"None", "bot_message"}
IsEdited(e) == e.subtype = "message_changed"
IsDeleted(e) == e.subtype = "message_deleted"

\* the bot markers as Slack sets them on a message
HasBotMark(m) == m.subtype = "bot_message" \/ m.bot_id # "None"

BotOriginated(e) ==
    \/ IsCreated(e) /\ HasBotMark(e)
    \/ IsEdited(e) /\ HasBotMark(e.message)
    \/ IsDeleted(e) /\ HasBotMark(e.previous_message)

\* the source key of an event
SrcChannel(e) == e.channel
SrcTs(e) ==
    IF IsEdited(e) THEN e.message.ts
    ELSE IF IsDeleted(e) THEN e.previous_message.ts ELSE e.ts

Row(sc, st, dst) ==
    [src_channel |-> sc, src_ts |-> st, dst_channel |-> dst.channel, dst_ts |-> dst.ts]

PostsAt(dst) ==
    {posts[n] : n \in {m \in DOMAIN posts :
                          posts[m].channel = dst.channel /\ posts[m].ts = dst.ts}}

Section(text) == [type |-> "section", fields |-> <<[type |-> "mrkdwn", text |-> text]>>]

Flag(lang) ==
    CASE lang = <<"ko">> -> <<":flag-kr:">>
      [] lang = <<"en">> -> <<":flag-us:">>
      [] lang = <<"th">> -> <<":flag-th:">>
      [] OTHER -> <<":globe_with_meridians:">>

\* the translated blocks: per target language, its flag and the trimmed reply
TranslatedBlocks(text, lang) ==
    [i \in 1..Len(find_target_languages(lang)) |->
        Section(Flag(find_target_languages(lang)[i]) \o <<SP>>
                \o strip(BackendReply(find_target_languages(lang)[i], text)))]

\* C1: when handle_message completes for a Created event of a non-bot message
\* with every call successful, the store maps the source key to the key the
\* placeholder send returned, and the destination's blocks are exactly the
\* source text prefixed with the detected language's flag, a divider, and one
\* flag-prefixed block per target language in find_target_languages order.
C1_CreateFlow ==
    \A r \in Running :
        LET e == r.event
        IN  (/\ r.pc = "done" /\ r.error = "None"
             /\ e.subtype = "None" /\ ~HasBotMark(e))
            => /\ r.response # <<>>
               /\ RowsOf(message_map, e.channel, e.ts)
                     = {Row(e.channel, e.ts, r.response[1])}
               /\ PostsAt(r.response[1]) # {}
               /\ \A p \in PostsAt(r.response[1]) :
                    p.blocks = <<Section(Flag(r.source_lang) \o <<SP>> \o e.text),
                                 [type |-> "divider", fields |-> <<>>]>>
                               \o TranslatedBlocks(e.text, r.source_lang)

\* C2: an Edited event of a non-bot message with a non-tombstone text and no
\* reference row performs the create flow: once the lookup has returned no row,
\* the handler does not end before a placeholder was sent threaded under the
\* source message, and the fallback raises no error of its own.
C2_EditFallbackCreates ==
    \A r \in Running :
        LET e == r.event
        IN  (/\ r.pc = "done"
             /\ IsEdited(e) /\ ~HasBotMark(e.message) /\ e.message.text # Tombstone
             /\ "select_message_map" \in Ops(r) /\ r.translations = <<>>)
            => /\ Call("say", e.channel, e.message.ts) \in Calls(r)
               /\ r.error # "TypeError"

\* C3: a bot-originated Created, Edited or Deleted event makes no call to the
\* translation service, the store or the delivery channel, and is no error.
C3_BotSuppressed ==
    \A r \in Running :
        BotOriginated(r.event)
        => /\ r.pc = "done"
           /\ r.calls = <<>>
           /\ r.error = "None"

C3_Witness ==
    \E h \in Running :
        /\ h.pc = "done"
        /\ h.event.subtype = "None"
        /\ h.event.bot_id # "None"
        /\ message_map # {}

\* C4: the lookup step of a Deleted event of a non-bot message whose source
\* key has no row ends the handler without error, with the lookup as its only
\* call, and leaves the store and the bot's messages unchanged.
C4_DeleteWithoutReference ==
    [][\A r \in Running :
          (/\ r.pc = "select"
           /\ IsDeleted(r.event) /\ ~HasBotMark(r.event.previous_message)
           /\ RowsOf(message_map, SrcChannel(r.event), SrcTs(r.event)) = {}
           /\ CopiesIn(r, hs') < CopiesIn(r, hs))
          => /\ \E r2 \in BagToSet(hs') :
                  /\ CopiesIn(r2, hs') > CopiesIn(r2, hs)
                  /\ r2.event = r.event
                  /\ r2.pc = "done"
                  /\ r2.error = "None"
                  /\ r2.calls = <<Call("select_message_map", SrcChannel(r.event),
                                       SrcTs(r.event))>>
             /\ message_map' = message_map
             /\ posts' = posts]_vars

C4_Witness ==
    \E h \in Running :
        /\ h.pc = "done"
        /\ IsDeleted(h.event) /\ ~HasBotMark(h.event.previous_message)
        /\ h.calls # <<>>
        /\ h.translations = <<>>
        /\ message_map # {}

\* C5: in every reachable state, under any interleaving of the handlers, the
\* table holds at most one row per source key (src_channel, src_ts).
C5_OneRowPerSourceKey ==
    \A r1 \in message_map : \A r2 \in message_map :
        (r1.src_channel = r2.src_channel /\ r1.src_ts = r2.src_ts) => r1 = r2

\* two Created events of one source key overlap: both placeholders are posted,
\* one insert went through and the other was refused
C5_Witness ==
    \E h \in Running : \E g \in Running :
        /\ h # g
        /\ h.error = "IntegrityError"
        /\ g.pc \in {"detect", "translate", "update"}
        /\ g.fn = "handle_message"
        /\ g.channel = h.channel /\ g.ts = h.ts
        /\ g.response # <<>>
        /\ Row(g.channel, g.ts, g.response[1]) \in message_map

C7_SendFailureAborts ==
    \A h \in Running :
        (/\ h.fn = "handle_message"
         /\ "say" \in Ops(h)
         /\ h.response = <<>>)
        => Ops(h) = {"say"}

\* the blocks the configured provider and the formatter produce for a text
ExpectedBlocks(prov, text, lang) ==
    <<Section(Flag(lang) \o <<SP>> \o (IF prov = "openai" THEN strip(text) ELSE text)),
      [type |-> "divider", fields |-> <<>>]>>
    \o TranslatedBlocks(text, lang)

\* C8: an Edited event of a non-bot message with a non-tombstone text and a
\* reference row detects, looks the row up, translates and updates the
\* destination the row names with the newly formatted content; it sends no
\* message and the row stays as it was.
C8_EditUpdatesInPlace ==
    \A r \in Running :
        LET e == r.event
        IN  (/\ IsEdited(e) /\ ~HasBotMark(e.message) /\ e.message.text # Tombstone
             /\ r.translations # <<>>)
            => /\ Row(e.channel, e.message.ts, r.translations[1]) \in message_map
               /\ Ops(r) \subseteq {"detect_language", "select_message_map",
                                    "translate", "chat_update"}
               /\ r.error # "TypeError"
               /\ (r.pc = "done" /\ r.error = "None")
                  => /\ r.calls = <<Call("detect_language", "", ""),
                                    Call("select_message_map", e.channel, e.message.ts),
                                    Call("translate", "", ""),
                                    Call("chat_update", r.translations[1].channel,
                                         r.translations[1].ts)>>
                     /\ PostsAt(r.translations[1]) # {}
                     /\ \A p \in PostsAt(r.translations[1]) :
                          /\ ~p.deleted
                          /\ p.blocks = ExpectedBlocks(provider, e.message.text,
                                                       r.source_lang)

C8_Witness ==
    \E h \in Running :
        /\ h.pc = "done" /\ h.error = "None"
        /\ IsEdited(h.event)
        /\ h.event.message.text = <<SP, "Hello">>
        /\ h.translations # <<>>
        /\ Cardinality(message_map) = 2

\* C9: a Deleted event of a non-bot message with a reference row looks the row
\* up, deletes the destination the row names, then removes the row, in this
\* order; when both calls succeed the store has no row for the source key.
C9_DeleteRemovesReference ==
    \A r \in Running :
        LET e == r.event
        IN  (/\ IsDeleted(e) /\ ~HasBotMark(e.previous_message)
             /\ r.translations # <<>>)
            => LET sel == Call("select_message_map", e.channel, e.previous_message.ts)
                   del == Call("chat_delete", r.translations[1].channel,
                               r.translations[1].ts)
                   rm == Call("delete_message_map", e.channel, e.previous_message.ts)
               IN  /\ r.calls \in {<<sel>>, <<sel, del>>, <<sel, del, rm>>}
                   /\ rm \notin Calls(r)
                      => Row(e.channel, e.previous_message.ts, r.translations[1])
                            \in message_map
                   /\ (r.pc = "done" /\ r.error = "None")
                      => /\ r.calls = <<sel, del, rm>>
                         /\ RowsOf(message_map, e.channel, e.previous_message.ts) = {}
                         /\ \A p \in PostsAt(r.translations[1]) : p.deleted

C9_Witness ==
    \E h \in Running :
        /\ h.pc = "done" /\ h.error = "None"
        /\ IsDeleted(h.event)
        /\ h.translations # <<>>
        /\ message_map # {}

\* C10: an Edited event of a non-bot message whose text is exactly the
\* tombstone is handled as a delete of its source key: it calls neither the
\* translation service nor chat_update; with a reference row the destination
\* is deleted and the row removed, without one nothing else is called.
C10_TombstoneEditDeletes ==
    \A r \in Running :
        LET e == r.event
        IN  (/\ IsEdited(e) /\ ~HasBotMark(e.message) /\ e.message.text = Tombstone)
            => /\ Ops(r) \subseteq {"select_message_map", "chat_delete",
                                    "delete_message_map"}
               /\ \A c \in Calls(r) :
                    IF c.op = "chat_delete"
                    THEN r.translations = <<[channel |-> c.channel, ts |-> c.ts]>>
                    ELSE c.channel = e.channel /\ c.ts = e.message.ts
               /\ (r.pc = "done" /\ r.error = "None")
                  => /\ RowsOf(message_map, e.channel, e.message.ts) = {}
                     /\ IF r.translations = <<>>
                        THEN Ops(r) \subseteq {"select_message_map"}
                        ELSE /\ Ops(r) = {"select_message_map", "chat_delete",
                                          "delete_message_map"}
                             /\ \A p \in PostsAt(r.translations[1]) : p.deleted

C10_Witness ==
    \E h \in Running :
        /\ h.pc = "done" /\ h.error = "None"
        /\ IsEdited(h.event)
        /\ h.event.message.text = Tombstone
        /\ h.translations # <<>>
        /\ message_map # {}
        /\ \E n \in DOMAIN posts : posts[n].deleted

\* the str "ko", "en" or "th"
Known == {<<"ko">>, <<"en">>, <<"th">>}

\* C11: for every input str, the empty one and unknown codes included,
\* find_target_languages returns a non-empty list: ko -> [th, en],
\* en -> [ko, th], th -> [ko, en], every other input -> [en, ko]; for ko, en
\* and th the source language is not among its own targets.
C11_TargetLanguages ==
    \A r \in Running :
        r.fn = "find_target_languages"
        => LET s == r.source_lang
               out == r.target_langs
           IN  /\ Len(out) > 0
               /\ s = <<"ko">> => out = << <<"th">>, <<"en">> >>
               /\ s = <<"en">> => out = << <<"ko">>, <<"th">> >>
               /\ s = <<"th">> => out = << <<"ko">>, <<"en">> >>
               /\ s \notin Known => out = << <<"en">>, <<"ko">> >>
               /\ s \in Known => \A i \in DOMAIN out : out[i] # s

\* the helper was called with th, and so with a code whose branch is the last
C11_Witness ==
    \E r \in Running :
        /\ r.fn = "find_target_languages"
        /\ r.source_lang = <<"th">>
        /\ r.target_langs # <<>>

\* C12: find_national_flag returns :flag-kr: for ko, :flag-us: for en,
\* :flag-th: for th and :globe_with_meridians: for every other str.
C12_NationalFlag ==
    \A r \in Running :
        r.fn = "find_national_flag"
        => LET s == r.source_lang
           IN  /\ s = <<"ko">> => r.text = <<":flag-kr:">>
               /\ s = <<"en">> => r.text = <<":flag-us:">>
               /\ s = <<"th">> => r.text = <<":flag-th:">>
               /\ s \notin Known => r.text = <<":globe_with_meridians:">>

\* the helper was called with a str that only resembles a known code
C12_Witness ==
    \E r \in Running :
        /\ r.fn = "find_national_flag"
        /\ r.source_lang = <<"en", SP>>
        /\ r.text # <<>>

\* the translated_text of the response, as the formatted blocks carry it
TranslatedText(r) == [i \in 1..(Len(r.blocks) - 2) |-> r.blocks[i + 2].fields[1].text]

\* C13: whatever the order in which the per-language calls complete, a
\* successful translate returns one translated text per target language, the
\* i-th being the flag-prefixed translation into the i-th target language.
C13_TranslationsAligned ==
    \A r \in Running :
        ("translate" \in Ops(r) /\ r.blocks # <<>>)
        => /\ Len(TranslatedText(r)) = Len(r.target_langs)
           /\ \A i \in DOMAIN r.target_langs :
                TranslatedText(r)[i]
                    = Flag(r.target_langs[i]) \o <<SP>>
                        \o strip(BackendReply(r.target_langs[i], r.text))

\* the second task completed before the first and translate returned
C13_Witness ==
    \E r \in Running :
        /\ r.blocks # <<>>
        /\ r.order = <<2, 1>>
        /\ r.target_langs = << <<"th">>, <<"en">> >>

\* the handler runs the delete flow: a Deleted event or a tombstone edit
InDeleteFlow(r) == r.fn = "handle_message_deleted"

\* C14: on a delete with a reference row, when the chat_delete call fails the
\* handler still calls delete_message_map and the row of the source key is
\* removed.
C14_DeleteAttemptsBoth ==
    \A r \in Running :
        (/\ InDeleteFlow(r) /\ r.pc = "done"
         /\ r.translations # <<>>
         /\ r.calls[Len(r.calls)].op = "chat_delete" /\ r.error = "SlackApiError")
        => /\ "delete_message_map" \in Ops(r)
           /\ RowsOf(message_map, r.channel, r.ts) = {}

\* a translation-service call of a create event is in flight or about to be
InServiceCall(r) ==
    /\ r.fn = "handle_message"
    /\ r.pc \in {"detect", "translate"}

\* C15: in the create flow the row is written after the placeholder send and
\* before the first translation-service call: whenever a detect or translate
\* call of a create event is in flight, the send and the insert have been
\* made and the row of its source key is in the table.
C15_RowBeforeTranslation ==
    \A r \in Running :
        InServiceCall(r)
        => /\ Len(r.calls) >= 2
           /\ r.calls[1] = Call("say", r.channel, r.ts)
           /\ r.calls[2] = Call("insert_message_map", r.channel, r.ts)
           /\ r.response # <<>>
           /\ RowsOf(message_map, r.channel, r.ts) # {}

\* the create flow has sent the placeholder and written the row
RowWritten(r) ==
    /\ r.fn = "handle_message" /\ IsCreated(r.event)
    /\ r.response # <<>>
    /\ Len(r.calls) >= 2 /\ r.calls[2].op = "insert_message_map"
    /\ ~(Len(r.calls) = 2 /\ r.error = "IntegrityError")

\* a call after the insert has failed
FailedLater(r) ==
    \/ r.error # "None"
    \/ \E i \in DOMAIN r.parts : r.parts[i].state = "failed"

\* C16: when detection, translation or the update fails in the create flow
\* after the placeholder was sent and the row written, the handler ends with
\* an error, the row is present as written, the destination still shows the
\* placeholder, and neither the row nor the placeholder is deleted.
C16_PartialFailurePersists ==
    \A r \in Running :
        (RowWritten(r) /\ FailedLater(r))
        => /\ r.pc = "done"
           /\ r.error \in {"Exception", "SlackApiError"}
           /\ r.calls[Len(r.calls)].op \in {"detect_language", "translate", "chat_update"}
           /\ RowsOf(message_map, r.channel, r.ts)
                 = {Row(r.channel, r.ts, r.response[1])}
           /\ PostsAt(r.response[1]) # {}
           /\ \A p \in PostsAt(r.response[1]) :
                /\ p.text = Placeholder /\ p.blocks = <<>> /\ ~p.deleted
           /\ Ops(r) \cap {"chat_delete", "delete_message_map"} = {}

\* one per-language translation failed after the row was written
C16_Witness ==
    \E r \in Running :
        /\ RowWritten(r)
        /\ r.error = "Exception"
        /\ r.calls[Len(r.calls)].op = "translate"
        /\ \E p \in PostsAt(r.response[1]) : p.text = Placeholder

\* a delete flow has deleted the derived message of the source key; in a run
\* that handles one event at a time it has then removed the row as well
RemovedByDelete(channel, ts) ==
    \E n \in DOMAIN posts :
        /\ posts[n].channel = channel /\ posts[n].thread_ts = ts
        /\ posts[n].deleted

\* C17: once a Deleted event or a tombstone edit has removed the row of a
\* source key, a later Created or Edited event of that key inserts no row,
\* posts no derived message and updates none.
C17_DeletedIsTerminal ==
    \A r \in Running :
        (/\ r.fn \in {"handle_message", "handle_message_changed"}
         /\ RemovedByDelete(SrcChannel(r.event), SrcTs(r.event)))
        => /\ r.response = <<>>
           /\ Ops(r) \cap {"insert_message_map", "chat_update"} = {}

\* the invocation r takes the step, and r2 is what it has become
Stepped(r, r2) ==
    /\ CopiesIn(r, hs) > CopiesIn(r, hs')
    /\ CopiesIn(r2, hs') > CopiesIn(r2, hs)
    /\ r2.event = r.event

\* a create handler of the key has written its row and not yet returned from
\* the translation
TranslationPending(c, channel, ts) ==
    /\ c.fn = "handle_message" /\ c.channel = channel /\ c.ts = ts
    /\ c.pc \in {"detect", "translate"}
    /\ c.response # <<>>
    /\ Row(channel, ts, c.response[1]) \in message_map

\* C18: a Deleted event handled while the create handler of its source key
\* has written the row and its translation has not finished finds the row,
\* deletes the placeholder it names and removes the row.
C18_DeleteDuringTranslation ==
    [][\A d \in Running : \A c \in Running :
          (/\ InDeleteFlow(d) /\ IsDeleted(d.event) /\ d.pc # "done"
           /\ TranslationPending(c, d.channel, d.ts)
           /\ CopiesIn(d, hs) > CopiesIn(d, hs'))
          => \E d2 \in BagToSet(hs') :
               /\ Stepped(d, d2)
               /\ d.pc = "select"
                  => /\ d2.pc = "chat_delete"
                     /\ d2.translations = c.response
               /\ (d.pc = "chat_delete" /\ d2.error = "None")
                  => /\ d2.pc = "db_delete"
                     /\ d.translations = c.response
                     /\ \A p \in {posts'[n] : n \in DOMAIN posts'} :
                          (p.channel = c.response[1].channel /\ p.ts = c.response[1].ts)
                          => p.deleted
               /\ d.pc = "db_delete"
                  => /\ d2.pc = "done" /\ d2.error = "None"
                     /\ RowsOf(message_map', d.channel, d.ts) = {}]_vars

\* the create handler is still translating; the delete handler has ended
\* with the placeholder deleted and the row removed
C18_Witness ==
    \E d \in Running : \E c \in Running :
        /\ IsDeleted(d.event) /\ d.pc = "done" /\ d.error = "None"
        /\ c.fn = "handle_message" /\ c.channel = d.channel /\ c.ts = d.ts
        /\ c.pc \in {"detect", "translate"}
        /\ c.response # <<>> /\ d.translations = c.response
        /\ \A p \in PostsAt(c.response[1]) : p.deleted
        /\ RowsOf(message_map, d.channel, d.ts) = {}

\* the text an event carries for its source message
SrcText(e) == IF IsEdited(e) THEN e.message.text ELSE e.text

\* the destinations the table names for a source key
Destinations(channel, ts) ==
    {[channel |-> x.dst_channel, ts |-> x.dst_ts] : x \in RowsOf(message_map, channel, ts)}

Arrival(r) == CHOOSE n \in 1..delivered : SrcText(r.event) = <<"Hello", ToString(n)>>

\* C20: when two Edited events of one source key that has a row are handled
\* concurrently and both handlers have completed without error, the
\* destination shows the translation of the text of the edit that arrived
\* last.
C20_NoLostUpdate ==
    \A r1 \in Running : \A r2 \in Running :
        (/\ r1.fn = "handle_message_changed" /\ r2.fn = "handle_message_changed"
         /\ r1.pc = "done" /\ r1.error = "None"
         /\ r2.pc = "done" /\ r2.error = "None"
         /\ r1.channel = r2.channel /\ r1.ts = r2.ts
         /\ Arrival(r1) < Arrival(r2) /\ Arrival(r2) = delivered)
        => \A dst \in Destinations(r2.channel, r2.ts) : \A p \in PostsAt(dst) :
             p.blocks = ExpectedBlocks(provider, SrcText(r2.event), r2.source_lang)

\* the invocation r takes the step
Steps_(r) == CopiesIn(r, hs) > CopiesIn(r, hs')

\* the row and the derived messages of every other source key are as before
OthersUntouched(channel, ts) ==
    /\ \A x \in message_map \cup message_map' :
         (x.src_channel # channel \/ x.src_ts # ts)
         => (x \in message_map /\ x \in message_map')
    /\ \A n \in DOMAIN posts :
         (posts[n].channel # channel \/ posts[n].thread_ts # ts)
         => (n \in DOMAIN posts' /\ posts'[n] = posts[n])

\* what a handler that ends without error leaves behind when events are
\* handled one at a time
SequentialOutcome ==
    \A r \in Running :
        LET e == r.event
            channel == SrcChannel(e)
            ts == SrcTs(e)
        IN  (r.pc = "done" /\ r.error = "None" /\ ~BotOriginated(e))
            => CASE r.fn = "handle_message" ->
                      /\ RowsOf(message_map, channel, ts)
                            = {Row(channel, ts, r.response[1])}
                      /\ \A p \in PostsAt(r.response[1]) :
                           p.blocks = ExpectedBlocks(provider, SrcText(e), r.source_lang)
                 [] r.fn = "handle_message_changed" ->
                      /\ Destinations(channel, ts) = {r.translations[1]}
                      /\ \A p \in PostsAt(r.translations[1]) :
                           p.blocks = ExpectedBlocks(provider, SrcText(e), r.source_lang)
                 [] OTHER ->
                      /\ RowsOf(message_map, channel, ts) = {}
                      /\ r.translations # <<>>
                         => \A p \in PostsAt(r.translations[1]) : p.deleted

\* C21: with the events of distinct source keys handled concurrently, a step
\* of a handler changes neither the row nor a derived message of another
\* source key, the delivery of an event changes neither table nor messages,
\* and every handler leaves its key as it would with one event at a time.
C21_DistinctKeysIndependent ==
    [][/\ \A r \in Running :
            Steps_(r) => OthersUntouched(SrcChannel(r.event), SrcTs(r.event))
       /\ (\A r \in Running : ~Steps_(r))
            => (message_map' = message_map /\ posts' = posts)
       /\ SequentialOutcome']_vars

\* a delete of one key has removed its row and derived message while the
\* create handler of the other key is between its insert and its update
C21_Witness ==
    \E d \in Running : \E c \in Running :
        /\ d.fn = "handle_message_deleted" /\ d.pc = "done" /\ d.error = "None"
        /\ d.translations # <<>>
        /\ c.fn = "handle_message" /\ c.pc \in {"translate", "update"}
        /\ c.ts # d.ts
        /\ c.response # <<>>
        /\ RowsOf(message_map, c.channel, c.ts) = {Row(c.channel, c.ts, c.response[1])}

\* one of the per-language calls of the event has failed
PartFailed(r) == \E i \in DOMAIN r.parts : r.parts[i].state = "failed"

\* C22: when one per-language translation call of an event fails, translate
\* returns no response, the handler makes no chat_update call and ends with
\* the error, and the messages and the table stay as they are.
C22_FailedBranchFailsAll ==
    [][\A r \in Running :
          PartFailed(r)
          => /\ r.blocks = <<>>
             /\ "chat_update" \notin Ops(r)
             /\ r.pc \in {"translate", "done"}
             /\ r.pc = "done" => r.error = "Exception"
             /\ Steps_(r)
                => /\ posts' = posts /\ message_map' = message_map
                   /\ \A r2 \in BagToSet(hs') :
                        Stepped(r, r2)
                        => (r2.blocks = <<>> /\ "chat_update" \notin Ops(r2))]_vars

\* of the two calls one failed and one succeeded, and translate has raised
C22_Witness ==
    \E r \in Running :
        /\ r.pc = "done" /\ r.error = "Exception"
        /\ \E i \in DOMAIN r.parts : r.parts[i].state = "failed"
        /\ \E i \in DOMAIN r.parts : r.parts[i].state = "ok"
        /\ r.fn = "handle_message_changed"

\* the event is about one of the bot's own messages
IsEcho(e) == \E n \in DOMAIN posts : posts[n].channel = SrcChannel(e) /\ posts[n].ts = SrcTs(e)

\* C23: the events of the bot's own send, update and delete calls that come
\* back are ignored: their handlers make no call, every message of the bot
\* is threaded under a user message, and the system eventually stays in a state
\* with no handler running.
C23_NoFeedbackLoop ==
    /\ [](/\ \A r \in Running :
               IsEcho(r.event) => (r.pc = "done" /\ r.calls = <<>> /\ r.error = "None")
          /\ \A n \in DOMAIN posts : posts[n].thread_ts \in Timestamps)
    /\ <>[](Running = {})

\* the event of the bot's own update came back and was ignored
C23_Witness ==
    \E r \in Running :
        /\ IsEcho(r.event) /\ IsEdited(r.event)
        /\ r.pc = "done" /\ r.calls = <<>>
        /\ r.event.message.text = <<"This is the translated message...">>

\* an external call of the invocation has raised
CallFailed(r) == r.error \in {"SlackApiError", "Exception", "IntegrityError"}

\* C24: when an external call fails the exception leaves the handler: the
\* failed call is the last call of the invocation, the only step left to it
\* is to end, and no call (per-language calls included) is issued twice.
C24_NoRetry ==
    [][\A r \in Running :
          /\ \A i \in DOMAIN r.calls : \A j \in DOMAIN r.calls :
                r.calls[i] = r.calls[j] => i = j
          /\ \A i \in DOMAIN r.order : \A j \in DOMAIN r.order :
                r.order[i] = r.order[j] => i = j
          /\ (CallFailed(r) \/ PartFailed(r))
             => /\ r.pc \in {"translate", "done"}
                /\ r.pc = "done" => CallFailed(r)
                /\ Steps_(r)
                   => \A r2 \in BagToSet(hs') :
                        Stepped(r, r2) => r2.calls = r.calls]_vars

\* the update failed after send, insert, detection and translation
C24_Witness ==
    \E r \in Running :
        /\ r.pc = "done" /\ r.error = "SlackApiError"
        /\ Len(r.calls) = 5
        /\ r.calls[5].op = "chat_update"

Dst(x) == [channel |-> x.dst_channel, ts |-> x.dst_ts]

\* the message shows the placeholder
ShowsPlaceholder(p) == p.text = Placeholder /\ p.blocks = <<>>

\* the message shows a completed translation: the original, a divider and
\* one block per target language
ShowsTranslation(p) ==
    /\ p.text \in {<<"Translated message...">>, <<"This is the translated message...">>}
    /\ Len(p.blocks) = 4
    /\ p.blocks[2] = [type |-> "divider", fields |-> <<>>]
    /\ \A i \in {1, 3, 4} : p.blocks[i].type = "section"

MapsToThreadedSend(x) ==
    /\ x.dst_channel = x.src_channel
    /\ \E p \in PostsAt(Dst(x)) : p.thread_ts = x.src_ts

\* the step is the insert of the create flow: it adds the row from the key of
\* the event to the result of the placeholder send of this invocation
InsertByCreate(r) ==
    /\ r.fn = "handle_message" /\ r.pc = "insert"
    /\ r.calls = <<Call("say", r.channel, r.ts)>>
    /\ r.response # <<>>
    /\ Row(r.channel, r.ts, r.response[1]) \notin message_map
    /\ message_map' = message_map \cup {Row(r.channel, r.ts, r.response[1])}

\* the step is the removal of the delete flow: it removes the row of the key
\* of the event and nothing else
RemoveByDelete(r) ==
    /\ r.fn = "handle_message_deleted" /\ r.pc = "db_delete"
    /\ message_map' = message_map \ RowsOf(message_map, r.channel, r.ts)

\* C27: every row maps a source key (c, ts) to the message returned by a
\* placeholder send threaded under ts in channel c; the table changes only
\* by the insert of the create flow and by the removal of the delete flow.
C27_RowsFromPlaceholderSends ==
    /\ [](\A x \in message_map : MapsToThreadedSend(x))
    /\ [][message_map' # message_map
            => \E r \in Running :
                 /\ Steps_(r)
                 /\ \A o \in Running \ {r} : ~Steps_(o)
                 /\ InsertByCreate(r) \/ RemoveByDelete(r)]_vars

\* the rows of both kinds of change: a create handler has inserted the row of
\* its placeholder, and a delete handler has removed the row of another key
C27_Witness ==
    /\ \E r \in Running :
         /\ r.fn = "handle_message" /\ r.response # <<>>
         /\ Row(r.channel, r.ts, r.response[1]) \in message_map
    /\ \E k \in Keys : /\ RowsOf(message_map, k[1], k[2]) = {}
                        /\ \E n \in DOMAIN posts :
                              /\ posts[n].channel = k[1] /\ posts[n].thread_ts = k[2]
                              /\ posts[n].deleted

\* the message is one the bot sent and has not deleted, and no row of its
\* source key names it
Orphaned(p) ==
    /\ ~p.deleted
    /\ Row(p.channel, p.thread_ts, [channel |-> p.channel, ts |-> p.ts]) \notin message_map

\* C28: when no handler is running, every message the bot sent and did not
\* delete is the destination of the row of its source key; a second Created
\* event of a key that has a row leaves no untracked placeholder.
C28_NoOrphanedDerived ==
    Running = {} => \A n \in DOMAIN posts : ~Orphaned(posts[n])

\* a chat_delete call for the destination has succeeded
DeleteSucceeded(dst) == \E p \in PostsAt(dst) : p.deleted

\* the step issues chat_update for the destination
IssuesUpdate(r, r2, dst) ==
    /\ Stepped(r, r2)
    /\ r.pc = "update"
    /\ Len(r2.calls) = Len(r.calls) + 1
    /\ r2.calls[Len(r2.calls)] = Call("chat_update", dst.channel, dst.ts)

\* C29: no chat_update is issued for a destination after a chat_delete for
\* it has succeeded, also when the Deleted event of the key is handled between
\* the row write or lookup of a create or edit handler and its update.
C29_NoUpdateAfterDelete ==
    [][\A r \in Running : \A r2 \in BagToSet(hs') :
          \A n \in DOMAIN posts :
             LET dst == [channel |-> posts[n].channel, ts |-> posts[n].ts]
             IN  IssuesUpdate(r, r2, dst) => ~DeleteSucceeded(dst)]_vars

\* the destination the handler holds for the key of its event: the result of
\* its own placeholder send in the create flow, the row it read in the edit
\* and delete flows
OwnDestination(r) == IF r.fn = "handle_message" THEN r.response ELSE r.translations

\* the step issues chat_update or chat_delete, for the destination dst
IssuesCall(r, r2) ==
    /\ Stepped(r, r2)
    /\ Len(r2.calls) = Len(r.calls) + 1
    /\ r2.calls[Len(r2.calls)].op \in {"chat_update", "chat_delete"}

\* the step is the lookup of the row of the key of the event
ReadsRow(r, r2) ==
    /\ Stepped(r, r2)
    /\ r.pc = "select"

\* the destination is a message of the bot threaded under the source key of
\* the event, and not a source message
DerivedFromOwnSource(r, dst) ==
    /\ <<dst.channel, dst.ts>> \notin Keys
    /\ PostsAt(dst) # {}
    /\ \A p \in PostsAt(dst) :
          p.channel = SrcChannel(r.event) /\ p.thread_ts = SrcTs(r.event)

\* C30: every chat_update and chat_delete call targets the destination of the
\* source key of the event: in the create flow the result of the event's own
\* placeholder send, in the edit and delete flows the destination read from
\* the row of (channel, ts) of the event; never a source message and never a
\* message derived from another source.
C30_CallsTargetOwnDestination ==
    [][\A r \in Running : \A r2 \in BagToSet(hs') :
          /\ IssuesCall(r, r2)
                => LET c == r2.calls[Len(r2.calls)]
                       dst == [channel |-> c.channel, ts |-> c.ts]
                   IN  /\ OwnDestination(r) = <<dst>>
                       /\ r2.response = r.response /\ r2.translations = r.translations
                       /\ DerivedFromOwnSource(r, dst)
                       /\ r.fn = "handle_message"
                             => r.calls[1] = Call("say", SrcChannel(r.event), SrcTs(r.event))
          /\ ReadsRow(r, r2)
                => /\ r.channel = SrcChannel(r.event) /\ r.ts = SrcTs(r.event)
                   /\ \A i \in DOMAIN r2.translations :
                         Row(r.channel, r.ts, r2.translations[i]) \in message_map
          /\ (Stepped(r, r2) /\ r.pc \notin {"select", "done"} /\ r.fn # "handle_message")
                => r2.translations = r.translations]_vars

\* with the rows of two keys of one channel stored, an edit handler of one
\* key has updated and a delete handler of the other key has deleted
C30_Witness ==
    /\ Cardinality({x.src_ts : x \in message_map} \cup
                   {p.thread_ts : p \in {posts[n] : n \in DOMAIN posts}}) = 2
    /\ \E r \in Running : \E d \in Running :
         /\ r.fn = "handle_message_changed" /\ r.pc = "done" /\ r.error = "None"
         /\ "chat_update" \in Ops(r)
         /\ d.fn = "handle_message_deleted" /\ "chat_delete" \in Ops(d)
         /\ d.error = "None"
         /\ d.channel = r.channel /\ d.ts # r.ts

\* the TranslationRequest of a call of translate
RequestOf(r) ==
    [text |-> r.text, source_lang |-> r.source_lang, target_lang |-> r.target_langs]

\* what the per-language tasks of the call returned
ResultsOf(r) ==
    [i \in DOMAIN r.target_langs |-> sync_translate(r.target_langs[i], r.outputs[i])]

\* C31: for the same TranslationRequest and the same backend outputs the two
\* providers return the same TranslationResponse: original_text is the flag of
\* the source language, a space and the request text, and translated_text[i]
\* is the flag of target_lang[i], a space and the trimmed backend output.
C31_ProvidersInterchangeable ==
    \A r \in Running :
        (r.fn = "translate" /\ r.pc = "done" /\ r.error = "None")
        => /\ r.response[1].original_text
                 = find_national_flag(r.source_lang) \o <<SP>> \o r.text
           /\ DOMAIN r.response[1].translated_text = DOMAIN r.target_langs
           /\ \A i \in DOMAIN r.target_langs :
                 r.response[1].translated_text[i]
                     = find_national_flag(r.target_langs[i]) \o <<SP>>
                       \o strip(r.outputs[i])
           /\ \A prov \in Providers :
                 translate(prov, RequestOf(r), ResultsOf(r)) = r.response[1]

====
